---- MODULE Spec2Model ----
(***************************************************************************)
(* The task store of src/hooks/useTasks.ts (the useTasks hook, the version  *)
(* at lines 220-450 of the file): the React state of the hook, the one-shot *)
(* load effect, normalizeTasks, the metrics memo and the CRUD callbacks.    *)
(*                                                                          *)
(* React state.  A setState call queues an update; the queued updates are   *)
(* applied in call order by the next render.  tasks, loading and error hold *)
(* the value the next render will show (every queued update applied).  A    *)
(* callback built by useCallback reads the state of the render that built   *)
(* it: undoDelete reads closureLastDeleted, the lastDeleted of the last     *)
(* render, not the value queued since.                                      *)
(*                                                                          *)
(* Values.  An optional value is a sequence: <<>> is undefined/null, <<v>>  *)
(* is v.  A timestamp is a day number standing for the ISO-8601 text of     *)
(* that day.  The pass-through fields title, priority and notes are left    *)
(* out: no operation reads them.                                            *)
(***************************************************************************)
EXTENDS Integers, Sequences, FiniteSets, TLC

(* ------------------------------ bounds --------------------------------- *)

\* The longest collection addTask and undoDelete may still grow.
MaxTasks == 2
\* How many days the clock may advance.
MaxClock == 1
\* How many times the load effect may run (mount, StrictMode re-run, ...).
MaxEffectRuns == 2
\* How many ids crypto.randomUUID() hands out.
MaxUuid == 1
\* How many updateTask calls a session makes.
MaxUpdates == 1

\* The first day of the session's clock (later than every stable 2020 date).
StartDay == 40

(* --------------------------- JavaScript values ------------------------- *)

\* Number(x) of a value that is not numeric.
NaN == -1000

\* a > b and a <= b on JavaScript numbers: every comparison with NaN is false.
JsGT(a, b) == a # NaN /\ b # NaN /\ a > b
JsLE(a, b) == a # NaN /\ b # NaN /\ a <= b

\* Loosely-typed values of the fetched JSON.
Undef == [tag |-> "undefined", s |-> "", n |-> 0]
Str(x) == [tag |-> "string", s |-> x, n |-> 0]
Num(x) == [tag |-> "number", s |-> "", n |-> x]
\* The ISO-8601 text of day d.
Iso(d) == [tag |-> "string", s |-> "iso", n |-> d]

\* JavaScript truthiness of a raw value.
Truthy(v) ==
    CASE v.tag = "string" -> v.s # ""
      [] v.tag = "number" -> v.n # 0
      [] OTHER -> FALSE

\* Number(v): a number is itself, an undefined or non-numeric value is NaN.
ToNumber(v) ==
    CASE v.tag = "number" -> v.n
      [] v.tag = "string" /\ v.s = "" -> 0
      [] OTHER -> NaN

\* new Date(v) parses: only ISO text and numbers give a valid date.
ValidDate(v) == v.tag = "number" \/ (v.tag = "string" /\ v.s = "iso")

(* ------------------------------- helpers ------------------------------- *)

Members(s) == {s[i] : i \in DOMAIN s}
IdsOf(s) == {s[i].id : i \in DOMAIN s}
\* prev.filter(t => t.id !== id)
WithoutId(s, id) == SelectSeq(s, LAMBDA t : t.id # id)
\* prev.find(t => t.id === id) || null
FindById(s, id) ==
    IF \E i \in DOMAIN s : s[i].id = id
    THEN <<s[CHOOSE i \in DOMAIN s :
                s[i].id = id /\ \A j \in DOMAIN s : s[j].id = id => i <= j]>>
    ELSE <<>>

(* ------------------------------ raw input ------------------------------ *)

\* A row of the fetched array: null, or an object whose fields may be missing
\* or wrongly typed.
RawRow(id, createdAt, completedAt, status, timeTaken, revenue) ==
    [null |-> FALSE, id |-> id, createdAt |-> createdAt, completedAt |-> completedAt,
     status |-> status, timeTaken |-> timeTaken, revenue |-> revenue]
NullRow ==
    [null |-> TRUE, id |-> Undef, createdAt |-> Undef, completedAt |-> Undef,
     status |-> "", timeTaken |-> Undef, revenue |-> Undef]

RowDone == RawRow(Str("t1"), Iso(10), Undef, "Done", Num(0), Num(100))
RowOpen == RawRow(Str("t2"), Undef, Undef, "In Progress", Str("abc"), Str("abc"))
RowKept == RawRow(Str("t2"), Iso(10), Iso(12), "Done", Num(0 - 3), Num(0))
RowNumId == RawRow(Num(7), Undef, Undef, "In Progress", Num(2), Num(5))
RowBadDate == RawRow(Str("t1"), Str("garbage"), Undef, "Done", Num(2), Num(5))

\* What res.json() may resolve to: a non-array, or an array of rows.
RawInputs ==
    { [array |-> FALSE, rows |-> <<>>],
      [array |-> TRUE, rows |-> <<>>],
      [array |-> TRUE, rows |-> <<RowDone>>],
      [array |-> TRUE, rows |-> <<RowDone, RowOpen>>],
      [array |-> TRUE, rows |-> <<RowKept>>],
      [array |-> TRUE, rows |-> <<RowDone, NullRow>>],
      [array |-> TRUE, rows |-> <<RowNumId>>],
      [array |-> TRUE, rows |-> <<RowBadDate>>] }

(* ---------------------------- normalizeTasks --------------------------- *)

\* The id a row passes through: a string as it is; a number or a missing id is
\* no string, written here as a text no caller-supplied id equals.
IdText(v) ==
    CASE v.tag = "string" -> v.s
      [] v.tag = "number" -> "#" \o ToString(v.n)
      [] OTHER -> "#undefined"

\* Number(id.replace(/\D/g, "")): the digits of an id, 0 when it has none.
DigitsOf(id) ==
    CASE id = "t1" -> 1
      [] id = "t2" -> 2
      [] OTHER -> 0

\* stableDateFromId: day (num % 28) + 1 of January 2020.
stableDateFromId(id) ==
    LET num == IF DigitsOf(id) # 0 THEN DigitsOf(id) ELSE 1
    IN  (num % 28) + 1

\* The rows on which the map callback throws: a null row (t.createdAt of null),
\* a non-string id handed to stableDateFromId (id.replace is not a function),
\* an unparsable createdAt (toISOString of an invalid date).
RowThrows(t) ==
    \/ t.null
    \/ ~Truthy(t.createdAt) /\ t.id.tag = "number"
    \/ Truthy(t.createdAt) /\ ~ValidDate(t.createdAt)

\* The fallback of the earlier version of the hook: the day of the call minus
\* the row's position, new Date(now - (idx + 1) * 24 * 3600 * 1000).
CreatedFallbackFromClock(id, i, day) == day - i

\* The createdAt of a row that supplies none, for the row at position i of an
\* array normalized on day `day`: stableDateFromId(t.id ?? ""), which reads
\* neither the position nor the clock.
CreatedFallback(id, i, day) ==
    stableDateFromId(IF id.tag = "undefined" THEN "" ELSE id.s)

\* The map callback, on the row t at position i, called on day `day`.
NormalizeRow(t, i, day) ==
    LET created == IF Truthy(t.createdAt)
                   THEN t.createdAt.n
                   ELSE CreatedFallback(t.id, i, day)
        completed == IF Truthy(t.completedAt) THEN <<t.completedAt.n>>
                     ELSE IF t.status = "Done" THEN <<created + 1>>
                     ELSE <<>>
    IN  [id |-> IdText(t.id),
         revenue |-> ToNumber(t.revenue),
         timeTaken |-> IF JsGT(ToNumber(t.timeTaken), 0) THEN ToNumber(t.timeTaken) ELSE 1,
         status |-> t.status,
         createdAt |-> created,
         completedAt |-> completed]

\* normalizeTasks throws when its map callback throws on some row.
NormalizeThrows(input) ==
    input.array /\ \E i \in DOMAIN input.rows : RowThrows(input.rows[i])

\* normalizeTasks(input), called on day `day`.
normalizeTasks(input, day) ==
    LET rows == IF input.array THEN input.rows ELSE <<>>
    IN  [i \in DOMAIN rows |-> NormalizeRow(rows[i], i, day)]

(* -------------------------- generateSalesTasks ------------------------- *)

\* The size of the synthetic set the load falls back to.
SeedCount == 50

\* generateSalesTasks(n) of @/utils/seed: n well-formed records, the same on
\* every call.
generateSalesTasks(n) ==
    [i \in 1..n |->
        [id |-> "seed-" \o ToString(i),
         revenue |-> 100 * i,
         timeTaken |-> (i % 8) + 1,
         status |-> IF i % 2 = 0 THEN "Done" ELSE "In Progress",
         createdAt |-> (i % 28) + 1,
         completedAt |-> IF i % 2 = 0 THEN <<(i % 28) + 2>> ELSE <<>>]]

(* ------------------------- the callers' inputs ------------------------- *)

\* The ids callers pass; a generated id is none of them.
Ids == {"t1", "t2"}
Statuses == {"In Progress", "Done"}
Uuid(k) == "uuid-" \o ToString(k)

\* The argument of addTask: a task whose id may be missing.
TaskInput(id, timeTaken, status) ==
    [id |-> id, revenue |-> 50, timeTaken |-> timeTaken, status |-> status]
TaskInputs ==
    { TaskInput(<<>>, 0, "In Progress"),
      TaskInput(<<"t1">>, 2, "Done") }

\* The argument of updateTask: a Partial<Task>.  A field that the patch does
\* not carry is <<>>.
Patch(id, timeTaken, status, completedAt) ==
    [id |-> id, timeTaken |-> timeTaken, status |-> status, completedAt |-> completedAt]
Patches ==
    { Patch(<<>>, <<>>, <<"Done">>, <<>>),
      Patch(<<>>, <<0>>, <<"In Progress">>, <<>>),
      Patch(<<>>, <<>>, <<>>, << <<2>> >>),
      Patch(<<"t2">>, <<0>>, <<>>, <<>>) }

(* ------------------------------ updaters ------------------------------- *)

\* The record built with completedAt stamped whatever the status.
NewTaskAlwaysCompleted(task, day, uuid) ==
    [id |-> IF task.id # <<>> THEN task.id[1] ELSE uuid,
     revenue |-> task.revenue,
     timeTaken |-> IF JsLE(task.timeTaken, 0) THEN 1 ELSE task.timeTaken,
     status |-> task.status,
     createdAt |-> day,
     completedAt |-> <<day>>]

\* The record addTask builds: { ...task, id, timeTaken, createdAt, completedAt }.
NewTask(task, day, uuid) ==
    [id |-> IF task.id # <<>> THEN task.id[1] ELSE uuid,
     revenue |-> task.revenue,
     timeTaken |-> IF JsLE(task.timeTaken, 0) THEN 1 ELSE task.timeTaken,
     status |-> task.status,
     createdAt |-> day,
     completedAt |-> IF task.status = "Done" THEN <<day>> ELSE <<>>]

\* addTask's updater: [...prev, record].
AddedTasks(prev, task, day, uuid) == Append(prev, NewTask(task, day, uuid))

\* { ...t, ...patch }
Merge(t, patch) ==
    [id |-> IF patch.id # <<>> THEN patch.id[1] ELSE t.id,
     revenue |-> t.revenue,
     timeTaken |-> IF patch.timeTaken # <<>> THEN patch.timeTaken[1] ELSE t.timeTaken,
     status |-> IF patch.status # <<>> THEN patch.status[1] ELSE t.status,
     createdAt |-> t.createdAt,
     completedAt |-> IF patch.completedAt # <<>> THEN patch.completedAt[1] ELSE t.completedAt]

\* The first map of updateTask: merge, then stamp completedAt on a move into Done.
MergeAndStamp(t, patch, day) ==
    LET merged == Merge(t, patch)
    IN  IF t.status # "Done" /\ merged.status = "Done" /\ merged.completedAt = <<>>
        THEN [merged EXCEPT !.completedAt = <<day>>]
        ELSE merged

\* The second map without its test of the id: every record is coerced.
CoerceTimeTakenAnyId(t, id, patch) ==
    IF JsLE(IF patch.timeTaken # <<>> THEN patch.timeTaken[1] ELSE t.timeTaken, 0)
    THEN [t EXCEPT !.timeTaken = 1]
    ELSE t

\* The second map of updateTask: timeTaken of the records whose id is (now) id.
CoerceTimeTaken(t, id, patch) ==
    IF t.id = id /\ JsLE(IF patch.timeTaken # <<>> THEN patch.timeTaken[1] ELSE t.timeTaken, 0)
    THEN [t EXCEPT !.timeTaken = 1]
    ELSE t

\* updateTask's updater.
UpdatedTasks(prev, id, patch, day) ==
    LET next == [i \in DOMAIN prev |->
                    IF prev[i].id # id THEN prev[i] ELSE MergeAndStamp(prev[i], patch, day)]
    IN  [i \in DOMAIN next |-> CoerceTimeTaken(next[i], id, patch)]

\* deleteTask's updater: the collection it returns, and the value it hands to
\* setLastDeleted.
DeletedTasks(prev, id) == WithoutId(prev, id)
DeleteTarget(prev, id) == FindById(prev, id)

(* ------------------------------- metrics ------------------------------- *)

\* The metrics record, with the one field the hook computes itself; the
\* fields it takes from @/utils/logic are left out.
INITIAL_METRICS == [totalTimeTaken |-> 0]

\* tasks.reduce((s, t) => s + t.timeTaken, 0)
RECURSIVE TotalTimeTaken(_)
TotalTimeTaken(ts) ==
    IF ts = <<>> THEN 0
    ELSE TotalTimeTaken(SubSeq(ts, 1, Len(ts) - 1)) + ts[Len(ts)].timeTaken

\* The callback of the metrics memo.
ComputeMetrics(ts) ==
    IF Len(ts) = 0 THEN INITIAL_METRICS
    ELSE [totalTimeTaken |-> TotalTimeTaken(ts)]

\* A memo with no dependencies: the value of the first render is kept.
MemoMetricsNoDeps(cached, ts) == cached

\* useMemo(callback, [tasks]) at a render whose collection is ts: every update
\* of the collection is a new array, so the callback runs again.
MemoMetrics(cached, ts) == ComputeMetrics(ts)

(* -------------------------------- state -------------------------------- *)

VARIABLES
    tasks,              \* useState<Task[]>: the collection
    loading,            \* useState(true)
    error,              \* useState<string | null>: <<>> or <<message>>
    lastDeleted,        \* useState<Task | null>: <<>> or <<record>>
    closureLastDeleted, \* the lastDeleted that the current undoDelete closes over
    deferredSlot,       \* a setLastDeleted issued by an updater React has yet to run
    dirty,              \* an update is queued since the last render
    metrics,            \* useMemo<Metrics>: the metrics of the last render
    fetchedRef,         \* useRef(false)
    isMounted,          \* the isMounted of the effect run that started the load
    effectOn,           \* the effect is set up (run, and not yet cleaned up)
    cleanupArmed,       \* the current effect run returned the cleanup function
    fetchState,         \* load(): "none", "pending", or how its try block ended: "loaded", "failed"
    now,                \* the day new Date() gives
    uuids,              \* how many ids crypto.randomUUID() has handed out
    updates,            \* how many updateTask calls were made
    effectRuns,         \* history: how many times the effect has run
    fetchCount,         \* history: how many times load() has been started
    seedCount,          \* history: how many times the load has set the collection
    lastCall            \* history: the last call that changed or read the store

vars ==
    <<tasks, loading, error, lastDeleted, closureLastDeleted, deferredSlot, dirty,
      metrics, fetchedRef, isMounted, effectOn, cleanupArmed, fetchState, now, uuids, updates,
      effectRuns, fetchCount, seedCount, lastCall>>

store == <<tasks, loading, error, lastDeleted, closureLastDeleted, deferredSlot, dirty, metrics>>
effect == <<fetchedRef, isMounted, effectOn, cleanupArmed, fetchState, effectRuns, fetchCount>>

\* The slot as the next render shows it: an updater's setLastDeleted lands
\* after the writes the callbacks queued themselves.
SlotNext == IF deferredSlot # <<>> THEN deferredSlot[1] ELSE lastDeleted

\* A call, with what a deleteTask found (<<>> or <<record>>; for undoDelete, what
\* it re-inserted) and the collection a deleteTask started from.
Call(op, target, pre) == [op |-> op, target |-> target, pre |-> pre]

Init ==
    /\ tasks = <<>>
    /\ loading = TRUE
    /\ error = <<>>
    /\ lastDeleted = <<>>
    /\ closureLastDeleted = <<>>
    /\ deferredSlot = <<>>
    /\ dirty = FALSE
    /\ metrics = INITIAL_METRICS
    /\ fetchedRef = FALSE
    /\ isMounted = FALSE
    /\ effectOn = FALSE
    /\ cleanupArmed = FALSE
    /\ fetchState = "none"
    /\ now = StartDay
    /\ uuids = 0
    /\ updates = 0
    /\ effectRuns = 0
    /\ fetchCount = 0
    /\ seedCount = 0
    /\ lastCall = Call("none", <<>>, <<>>)

(* ---------------------------- the load effect -------------------------- *)

\* The guard left out: every run of the effect starts a load.
EffectStartsLoadUnguarded(ref) == TRUE

\* if (fetchedRef.current) return;
EffectStartsLoad(ref) == ~ref

\* The effect body runs: on mount, and again after a cleanup (StrictMode's
\* second run, a refresh).  The hook's state and refs survive the re-run.
RunEffect ==
    /\ ~effectOn
    /\ effectRuns < MaxEffectRuns
    /\ effectOn' = TRUE
    /\ effectRuns' = effectRuns + 1
    /\ IF EffectStartsLoad(fetchedRef)
       THEN /\ fetchedRef' = TRUE
            /\ isMounted' = TRUE
            /\ fetchState' = "pending"
            /\ fetchCount' = fetchCount + 1
            /\ cleanupArmed' = TRUE
       ELSE /\ cleanupArmed' = FALSE
            /\ UNCHANGED <<fetchedRef, isMounted, fetchState, fetchCount>>
    /\ UNCHANGED <<store, now, uuids, updates, seedCount, lastCall>>

\* The effect is cleaned up: return () => { isMounted = false }, when this run
\* returned it.
CleanupEffect ==
    /\ effectOn
    /\ effectOn' = FALSE
    /\ cleanupArmed' = FALSE
    /\ isMounted' = IF cleanupArmed THEN FALSE ELSE isMounted
    /\ UNCHANGED <<store, fetchedRef, fetchState, effectRuns, fetchCount, now, uuids,
                   updates, seedCount, lastCall>>

\* How the fetch of /tasks.json may settle.
FetchOutcomes ==
    {[kind |-> k, input |-> [array |-> FALSE, rows |-> <<>>]] : k \in {"network", "status", "json"}}
        \cup {[kind |-> "ok", input |-> inp] : inp \in RawInputs}

\* The try block throws: fetch rejects, !res.ok, res.json() rejects, or
\* normalizeTasks throws.
LoadThrows(o) == o.kind # "ok" \/ NormalizeThrows(o.input)

\* err?.message ?? 'Failed to load tasks'
ErrorMessage(o) ==
    CASE o.kind = "network" -> "Failed to fetch"
      [] o.kind = "status" -> "Failed to load tasks.json (404)"
      [] o.kind = "json" -> "Unexpected token"
      [] OTHER -> "TypeError"

\* normalized.length > 0 ? normalized : generateSalesTasks(50)
FinalData(input, day) ==
    IF Len(normalizeTasks(input, day)) > 0 THEN normalizeTasks(input, day)
    ELSE generateSalesTasks(SeedCount)

\* What the catch block leaves in the collection.
TasksAfterFailure(prev) == prev

\* The tests of isMounted left out: load() sets the state whatever the flag.
LoadSetsStateUnguarded(mounted) == TRUE

\* if (isMounted) before setTasks, setError and setLoading.
LoadSetsState(mounted) == mounted

\* The awaited fetch settles and load() runs to its end: try, catch, finally.
FetchSettle(o) ==
    /\ fetchState = "pending"
    /\ fetchState' = IF LoadThrows(o) THEN "failed" ELSE "loaded"
    /\ IF LoadSetsState(isMounted)
       THEN /\ loading' = FALSE
            /\ dirty' = TRUE
            /\ IF LoadThrows(o)
               THEN /\ error' = <<ErrorMessage(o)>>
                    /\ tasks' = TasksAfterFailure(tasks)
                    /\ UNCHANGED <<seedCount, lastCall>>
               ELSE /\ tasks' = FinalData(o.input, now)
                    /\ seedCount' = seedCount + 1
                    /\ lastCall' = Call("load", <<>>, <<>>)
                    /\ UNCHANGED error
       ELSE UNCHANGED <<tasks, loading, error, dirty, seedCount, lastCall>>
    /\ UNCHANGED <<lastDeleted, closureLastDeleted, deferredSlot, metrics, fetchedRef,
                   isMounted, effectOn, cleanupArmed, effectRuns, fetchCount, now, uuids,
                   updates>>

(* ------------------------------ rendering ------------------------------ *)

\* The hook re-renders: the queued updates are applied and the callbacks are
\* rebuilt over the new state.  The effect has no dependencies and does not
\* re-run.
Render ==
    /\ effectOn
    /\ dirty
    /\ lastDeleted' = SlotNext
    /\ closureLastDeleted' = SlotNext
    /\ deferredSlot' = <<>>
    /\ metrics' = MemoMetrics(metrics, tasks)
    /\ dirty' = FALSE
    /\ UNCHANGED <<tasks, loading, error, effect, now, uuids, updates, seedCount, lastCall>>

\* Time passes.
Tick ==
    /\ now < StartDay + MaxClock
    /\ now' = now + 1
    /\ UNCHANGED <<store, effect, uuids, updates, seedCount, lastCall>>

(* ---------------------------- CRUD callbacks --------------------------- *)

AddTask(task) ==
    /\ effectOn
    /\ Len(tasks) < MaxTasks
    /\ task.id = <<>> => uuids < MaxUuid
    /\ tasks' = AddedTasks(tasks, task, now, Uuid(uuids + 1))
    /\ uuids' = IF task.id = <<>> THEN uuids + 1 ELSE uuids
    /\ dirty' = TRUE
    /\ lastCall' = Call("addTask", <<>>, <<>>)
    /\ UNCHANGED <<loading, error, lastDeleted, closureLastDeleted, deferredSlot, metrics,
                   effect, now, updates, seedCount>>

\* updateTask(id, patch), in a session of at most n such calls.
UpdateTaskWithin(n, id, patch) ==
    /\ effectOn
    /\ updates < n
    /\ updates' = updates + 1
    /\ tasks' = UpdatedTasks(tasks, id, patch, now)
    /\ dirty' = TRUE
    /\ lastCall' = Call("updateTask", <<>>, <<>>)
    /\ UNCHANGED <<loading, error, lastDeleted, closureLastDeleted, deferredSlot, metrics,
                   effect, now, uuids, seedCount>>

UpdateTask(id, patch) == UpdateTaskWithin(MaxUpdates, id, patch)

\* setLastDeleted(target) is called by the updater.  React runs the updater at
\* the call when nothing is queued yet, or else during the next render, and
\* then its write lands after those queued by later callbacks.
DeleteTask(id) ==
    /\ effectOn
    /\ tasks' = DeletedTasks(tasks, id)
    /\ \E eager \in (IF dirty THEN {FALSE} ELSE BOOLEAN) :
          IF eager
          THEN lastDeleted' = DeleteTarget(tasks, id) /\ UNCHANGED deferredSlot
          ELSE deferredSlot' = <<DeleteTarget(tasks, id)>> /\ UNCHANGED lastDeleted
    /\ dirty' = TRUE
    /\ lastCall' = Call("deleteTask", DeleteTarget(tasks, id), tasks)
    /\ UNCHANGED <<loading, error, closureLastDeleted, metrics, effect, now, uuids, updates,
                   seedCount>>

\* if (!lastDeleted) return;
UndoReturnsEarly(slot) == slot = <<>>

UndoDelete ==
    /\ effectOn
    /\ lastCall' = Call("undoDelete", closureLastDeleted, <<>>)
    /\ IF UndoReturnsEarly(closureLastDeleted)
       THEN UNCHANGED <<tasks, lastDeleted, dirty>>
       ELSE /\ Len(tasks) < MaxTasks
            /\ tasks' = Append(tasks, closureLastDeleted[1])
            /\ lastDeleted' = <<>>
            /\ dirty' = TRUE
    /\ UNCHANGED <<loading, error, closureLastDeleted, deferredSlot, metrics, effect, now,
                   uuids, updates, seedCount>>

ClearLastDeleted ==
    /\ effectOn
    /\ lastDeleted' = <<>>
    /\ dirty' = TRUE
    /\ lastCall' = Call("clearLastDeleted", <<>>, <<>>)
    /\ UNCHANGED <<tasks, loading, error, closureLastDeleted, deferredSlot, metrics, effect,
                   now, uuids, updates, seedCount>>

Next ==
    \/ RunEffect
    \/ CleanupEffect
    \/ \E o \in FetchOutcomes : FetchSettle(o)
    \/ Render
    \/ Tick
    \/ \E task \in TaskInputs : AddTask(task)
    \/ \E id \in Ids, patch \in Patches : UpdateTask(id, patch)
    \/ \E id \in Ids : DeleteTask(id)
    \/ UndoDelete
    \/ ClearLastDeleted

Spec == Init /\ [][Next]_vars

\* The load effect alone: the steps that read or write fetchedRef, isMounted and
\* the fetch.  No callback touches them.
NextLoad ==
    \/ RunEffect
    \/ CleanupEffect
    \/ \E o \in FetchOutcomes : FetchSettle(o)
    \/ Render
    \/ Tick

SpecLoad == Init /\ [][NextLoad]_vars

\* Sessions of edits: the load, then addTask and updateTask calls, one
\* updateTask more than in Spec, and no delete.
NextEdits ==
    \/ RunEffect
    \/ \E o \in FetchOutcomes : FetchSettle(o)
    \/ Tick
    \/ \E task \in TaskInputs : AddTask(task)
    \/ \E id \in Ids, patch \in Patches : UpdateTaskWithin(MaxUpdates + 1, id, patch)

SpecEdits == Init /\ [][NextEdits]_vars

\* The calls made between two renders: the load, then addTask, updateTask and
\* deleteTask calls while the clock advances.
NextCalls ==
    \/ RunEffect
    \/ \E o \in FetchOutcomes : FetchSettle(o)
    \/ Tick
    \/ \E task \in TaskInputs : AddTask(task)
    \/ \E id \in Ids, patch \in Patches : UpdateTask(id, patch)
    \/ \E id \in Ids : DeleteTask(id)

SpecCalls == Init /\ [][NextCalls]_vars

\* A loaded collection that is edited, emptied and restored, with the renders
\* in between: the load, Render, updateTask, deleteTask and undoDelete.
NextRenders ==
    \/ RunEffect
    \/ \E o \in FetchOutcomes : FetchSettle(o)
    \/ Render
    \/ \E id \in Ids, patch \in Patches : UpdateTask(id, patch)
    \/ \E id \in Ids : DeleteTask(id)
    \/ UndoDelete

SpecRenders == Init /\ [][NextRenders]_vars

(* ------------------------------- claims -------------------------------- *)

\* The synthetic set the load falls back to.
SyntheticSet == generateSalesTasks(SeedCount)

\* C1: deleteTask(id) of an id in the collection, followed by undoDelete() with
\* no other call between them (the hook having re-rendered, so that undoDelete
\* sees the slot), leaves the collection with the members it had before the
\* delete, and the slot empty.
C1_DeleteUndoRestores ==
    [][(/\ lastCall.op = "deleteTask"
        /\ lastCall.target # <<>>
        /\ ~dirty
        /\ lastCall'.op = "undoDelete")
       => (Members(tasks') = Members(lastCall.pre) /\ SlotNext' = <<>>)]_vars

C3_SeededOnceWhenSettled ==
    (fetchState = "loaded" /\ effectOn) => (seedCount = 1 /\ loading = FALSE)

\* C4: when the load fails, error is set and the collection becomes the
\* synthetic set; when the fetched data normalizes to nothing, the collection
\* becomes the synthetic set.
C4_FailureFallsBackToSeed ==
    [][\A o \in FetchOutcomes :
          (FetchSettle(o) /\ isMounted) =>
              /\ LoadThrows(o) => (error' # <<>> /\ tasks' = SyntheticSet)
              /\ (~LoadThrows(o) /\ Len(normalizeTasks(o.input, now)) = 0)
                    => tasks' = SyntheticSet]_vars

\* C5: every task of the collection has timeTaken > 0.
C5_TimeTakenPositive ==
    \A i \in DOMAIN tasks : JsGT(tasks[i].timeTaken, 0)

\* C6: every task of the collection has completedAt exactly when its status is
\* Done.
C6_CompletedIffDone ==
    \A i \in DOMAIN tasks : (tasks[i].completedAt # <<>>) <=> (tasks[i].status = "Done")

\* C7: an undoDelete() that follows an undoDelete(), with no call between
\* them, changes neither the collection nor the slot.
C7_SecondUndoIsNoOp ==
    [][(lastCall.op = "undoDelete" /\ lastCall'.op = "undoDelete")
       => (tasks' = tasks /\ SlotNext' = SlotNext)]_vars

\* C8: deleteTask(id) of an id that no record has changes neither the
\* collection nor the slot.
C8_DeleteUnknownIsNoOp ==
    [][\A id \in Ids :
          (DeleteTask(id) /\ id \notin IdsOf(tasks))
              => (tasks' = tasks /\ SlotNext' = SlotNext)]_vars

\* C9: deleteTask(id) of an id in the collection removes the records with that
\* id, keeps the others, and puts the removed record in the slot; and an
\* undoDelete() right after such a deleteTask re-inserts only the record that
\* this deleteTask removed, never one the slot held before.
C9_OneLevelUndo ==
    [][/\ \A id \in Ids :
             (DeleteTask(id) /\ id \in IdsOf(tasks))
                 => /\ id \notin IdsOf(tasks')
                    /\ tasks' = SelectSeq(tasks, LAMBDA t : t.id # id)
                    /\ SlotNext' # <<>>
                    /\ SlotNext'[1] \in Members(tasks)
                    /\ SlotNext'[1].id = id
       /\ (/\ lastCall.op = "deleteTask"
           /\ lastCall.target # <<>>
           /\ lastCall'.op = "undoDelete"
           /\ tasks' # tasks)
             => tasks' = Append(tasks, lastCall.target[1])]_vars

\* C10: no two records of the collection share an id.
C10_IdsUnique ==
    \A i, j \in DOMAIN tasks : tasks[i].id = tasks[j].id => i = j

\* C11: an updateTask(id, patch) that moves a record from a status other than
\* Done to Done, with a patch that carries no completedAt, leaves the record
\* with a completedAt that is not earlier than its createdAt.
C11_StampNotBeforeCreated ==
    [][\A id \in Ids, patch \in Patches :
          (/\ UpdateTaskWithin(MaxUpdates + 1, id, patch)
           /\ patch.status = <<"Done">>
           /\ patch.completedAt = <<>>)
             => \A i \in DOMAIN tasks :
                   (tasks[i].id = id /\ tasks[i].status # "Done")
                      => /\ tasks'[i].completedAt # <<>>
                         /\ tasks'[i].completedAt[1] >= tasks'[i].createdAt]_vars

\* C12: updateTask(id, patch) keeps the length and the order of the collection,
\* every record whose id is not id, and the slot; when no record has the id,
\* the collection, loading and error are unchanged too.
C12_UpdateChangesOnlyItsRecord ==
    [][\A id \in Ids, patch \in Patches :
          UpdateTask(id, patch)
             => /\ Len(tasks') = Len(tasks)
                /\ \A i \in DOMAIN tasks : tasks[i].id # id => tasks'[i] = tasks[i]
                /\ SlotNext' = SlotNext
                /\ lastDeleted' = lastDeleted
                /\ id \notin IdsOf(tasks)
                      => (tasks' = tasks /\ loading' = loading /\ error' = error)]_vars

\* C12, its case: updateTask('t1', ..) has just changed t1 in a collection that
\* also holds a generated record, while the slot holds the deleted t2.
C12_Witness ==
    /\ lastCall.op = "updateTask"
    /\ SlotNext # <<>>
    /\ SlotNext[1].id = "t2"
    /\ Len(tasks) = 2
    /\ tasks[1].id = "t1"
    /\ tasks[1].status = "In Progress"
    /\ tasks[2].id = Uuid(1)

\* C13: clearLastDeleted() (no deleteTask write still pending) leaves the
\* collection as it is and the slot empty; and an undoDelete() that follows a
\* clearLastDeleted(), with no call between them, leaves the collection as it
\* is.
C13_ClearThenUndoRestoresNothing ==
    [][/\ (ClearLastDeleted /\ deferredSlot = <<>>)
             => (tasks' = tasks /\ SlotNext' = <<>>)
       /\ (lastCall.op = "clearLastDeleted" /\ lastCall'.op = "undoDelete")
             => tasks' = tasks]_vars

\* C14: when the fetch resolves with an array, whatever its rows, the load of a
\* mounted hook sets no error, and a non-empty array gives a collection with
\* one record per row, in the order of the rows.
C14_MalformedRowDoesNotAbort ==
    [][\A o \in FetchOutcomes :
          (FetchSettle(o) /\ isMounted /\ o.kind = "ok" /\ o.input.array)
             => /\ error' = <<>>
                /\ Len(o.input.rows) > 0
                      => /\ Len(tasks') = Len(o.input.rows)
                         /\ \A i \in DOMAIN o.input.rows :
                               ~o.input.rows[i].null
                                  => tasks'[i].id = IdText(o.input.rows[i].id)]_vars

\* C15: on whatever day a load normalizes a fetched input, the collection it
\* gives is the one normalizing that input gives on every other day of the
\* session, filled-in createdAt and completedAt included.
C15_NormalizeIsDeterministic ==
    [][\A o \in FetchOutcomes :
          (FetchSettle(o) /\ isMounted /\ ~LoadThrows(o))
             => \A day \in StartDay..(StartDay + MaxClock) :
                   tasks' = FinalData(o.input, day)]_vars

\* C15, its case: rows without createdAt and completedAt were normalized, and
\* the clock has advanced since the session began.
C15_Witness ==
    /\ fetchState = "loaded"
    /\ now > StartDay
    /\ Len(tasks) = 2
    /\ tasks[1].id = "t1" /\ tasks[1].completedAt = <<11>>
    /\ tasks[2].id = "t2" /\ tasks[2].createdAt = 3

\* C16: in the collection a load normalizes from a non-empty fetched array, the
\* revenue of a record is 0 when the row's revenue is not numeric, and the
\* row's number otherwise.
C16_RevenueNeverNaN ==
    [][\A o \in FetchOutcomes :
          (FetchSettle(o) /\ isMounted /\ ~LoadThrows(o) /\ Len(o.input.rows) > 0)
             => \A i \in DOMAIN o.input.rows :
                   tasks'[i].revenue =
                      IF ToNumber(o.input.rows[i].revenue) = NaN
                      THEN 0
                      ELSE ToNumber(o.input.rows[i].revenue)]_vars

\* C17: addTask(task) appends one record and keeps the records the collection
\* had, in their places, and the slot; the new record has the id of the task,
\* or a generated one when the task has none, the task's status, createdAt the
\* current day, and a completedAt exactly when its status is Done.
C17_AddAppendsOneRecord ==
    [][\A task \in TaskInputs :
          AddTask(task)
             => /\ Len(tasks') = Len(tasks) + 1
                /\ SubSeq(tasks', 1, Len(tasks)) = tasks
                /\ SlotNext' = SlotNext
                /\ lastDeleted' = lastDeleted
                /\ LET new == tasks'[Len(tasks')]
                   IN  /\ new.id = IF task.id # <<>> THEN task.id[1] ELSE Uuid(uuids + 1)
                       /\ new.status = task.status
                       /\ new.createdAt = now
                       /\ (new.completedAt # <<>>) <=> (new.status = "Done")]_vars

\* C17, its case: addTask has just appended a record with a generated id to a
\* collection of one record, while the slot holds a deleted record.
C17_Witness ==
    /\ lastCall.op = "addTask"
    /\ SlotNext # <<>>
    /\ Len(tasks) = 2
    /\ tasks[1].id = "t1"
    /\ tasks[2].id = Uuid(1)
    /\ tasks[2].status = "In Progress"
    /\ tasks[2].createdAt = now
    /\ tasks[2].completedAt = <<>>

\* C18: in every state the hook has rendered, the exposed metrics are those of
\* the collection: the zeroed default when it is empty, and otherwise a
\* totalTimeTaken that is the sum of timeTaken over its records.
C18_MetricsOfCurrentTasks ==
    ~dirty =>
        IF tasks = <<>>
        THEN metrics = INITIAL_METRICS
        ELSE metrics.totalTimeTaken = TotalTimeTaken(tasks)

\* C18, its case: the last task was deleted and the hook has rendered since;
\* before it, the collection was not empty.
C18_Witness ==
    /\ ~dirty
    /\ lastCall.op = "deleteTask"
    /\ lastCall.pre # <<>>
    /\ tasks = <<>>
    /\ metrics = INITIAL_METRICS

\* C19: when the fetch settles after the cleanup of the effect run that
\* started it (isMounted false), by success or by failure, tasks, error and
\* loading stay as they are.
C19_SettleAfterCleanupWritesNothing ==
    [][\A o \in FetchOutcomes :
          (FetchSettle(o) /\ ~isMounted)
             => (tasks' = tasks /\ error' = error /\ loading' = loading)]_vars

\* C19, its case: the fetch has settled after the cleanup, and the store is as
\* it was at mount.
C19_Witness ==
    /\ fetchState \in {"loaded", "failed"}
    /\ ~isMounted
    /\ loading
    /\ tasks = <<>>
    /\ error = <<>>

\* C20: when the slot holds a record, no record of the collection has that
\* record's id.
C20_SlotDisjointFromTasks ==
    SlotNext # <<>> => SlotNext[1].id \notin IdsOf(tasks)

====
